---- MODULE Spec2Model ----
(***************************************************************************)
(* A model of the torus-cli registry clients, API error formatting, daemon *)
(* process lifecycle, project commands and the session engine.             *)
(*                                                                         *)
(* The module holds several independent state machines over one set of     *)
(* variables.  Each specification (SpecErrors, SpecRegistry, ...) runs one *)
(* of them and keeps the variables of the others at their idle values.     *)
(***************************************************************************)
EXTENDS Integers, Sequences, FiniteSets, TLC

VARIABLES
    feErr,      \* apitypes: the error handed to FormatError
    feOut,      \* apitypes: what FormatError returned for feErr
    wire,       \* registry: the requests client.Do has sent, in order
    lastCall,   \* registry: the last client operation, its arguments and what it returned
    nCalls,     \* registry: number of client operations performed
    proc,       \* daemon: the process: "running", or how it ended
    mainPc,     \* daemon: where main is
    watchPc,    \* daemon: where the watch goroutine is
    sigChan,    \* daemon: signals buffered in watch's channel c (capacity 1)
    shutStage,  \* daemon: per goroutine, how far its call of daemon.Shutdown is
    shutDone,   \* daemon: calls of daemon.Shutdown that have returned
    keysWiped,  \* daemon: the session key material has been wiped
    runResult,  \* daemon: how daemon.Run ended
    projects,   \* cmd: the projects the registry holds, as <<org, name>>
    orgs,       \* cmd: per org, "absent", "created" or "keyed" (its keypairs generated)
    profile,    \* cmd: the name and email the registry holds for the user
    apiLog,     \* cmd: the API requests the commands have issued, in order
    cmdLast,    \* cmd: the last command function run, its arguments and what it returned
    sessState,  \* session: "LoggedOut", "LoggingIn" or "LoggedIn"
    sessType,   \* session: NotLoggedIn, UserSession or MachineSession
    masterKey,  \* session: the cached master key, or NoKey
    keypairs,   \* session: the cached decrypted keypairs
    lockW,      \* session lock: the request holding it for writing, or 0
    lockR,      \* session lock: the requests holding it for reading
    req,        \* session: per request, its operation, position and result
    rsTrees,    \* resolution: the CredentialTrees List returned, in order
    rsResult    \* resolution: what GetCredential returned for them

errVars == <<feErr, feOut>>
regVars == <<wire, lastCall, nCalls>>
dmnVars == <<proc, mainPc, watchPc, sigChan, shutStage, shutDone, keysWiped, runResult>>
cmdVars == <<projects, orgs, profile, apiLog, cmdLast>>
sessVars == <<sessState, sessType, masterKey, keypairs, lockW, lockR, req>>
resVars == <<rsTrees, rsResult>>
vars == <<errVars, regVars, dmnVars, cmdVars, sessVars, resVars>>

(***************************************************************************)
(* Bounds of the model.                                                    *)
(***************************************************************************)
MaxMsgs == 2      \* longest Err list of an API error
MaxMsgLen == 2    \* longest message, in tokens
MaxCalls == 2     \* registry client operations per behaviour
MaxCmds == 3      \* command functions run per behaviour
NumReqs == 2      \* concurrent requests served against the one session
MaxTrees == 2     \* CredentialTrees in one List response
MaxProjects == 2  \* projects in one Projects.List response

SeqsUpTo(S, n) == UNION {[1..k -> S] : k \in 0..n}

(***************************************************************************)
(* apitypes: errors.  A Go string is a sequence of tokens; the tokens are  *)
(* the two halves of the text FormatError searches for and a filler.       *)
(***************************************************************************)
BadRequestError == "bad_request"
UnauthorizedError == "unauthorized"
NotFoundError == "not_found"
InternalServerError == "internal_server"
NotImplementedError == "not_implemented"

ErrorTypes ==
    {BadRequestError, UnauthorizedError, NotFoundError, InternalServerError,
     NotImplementedError}

UnverifiedNeedle == <<"wrong identity state: ", "unverified">>
UnauthorizedMessage == <<"You are unauthorized to perform this action.">>
UnverifiedMessage == <<"Your account has not yet been verified.">>

Tokens == {"wrong identity state: ", "unverified", "x"}
Messages == SeqsUpTo(Tokens, MaxMsgLen)
StatusCodes == {401, 404}

\* The values an `error` interface can hold: nil, a non-API error, an *Error,
\* or a nil *Error pointer.
NilErr == [kind |-> "nil"]
OtherErr(m) == [kind |-> "other", msg |-> m]
NilPtrErr == [kind |-> "nilptr"]
ApiErr(code, type, msgs) ==
    [kind |-> "api", StatusCode |-> code, Type |-> type, Err |-> msgs]
Panic == [kind |-> "panic"]
NotCalled == [kind |-> "notcalled"]

\* The kinds of session
MachineSession == "machine"
UserSession == "user"
NotLoggedIn == "no_session"

NonApiErrors == {NilErr, NilPtrErr, OtherErr(<<"x">>), OtherErr(UnverifiedNeedle)}

\* strings.Contains(m, sub)
Contains(m, sub) ==
    \E i \in 1..(Len(m) + 1) :
        /\ i + Len(sub) - 1 <= Len(m)
        /\ SubSeq(m, i, i + Len(sub) - 1) = sub

NewUnverifiedError == ApiErr(401, UnauthorizedError, <<UnverifiedMessage>>)

GenericUnauthorized == ApiErr(401, UnauthorizedError, <<UnauthorizedMessage>>)

\* FormatError with the scan of Err stopping after the first message.
FormatErrorFirstMessageOnly(err) ==
    IF err = NilErr THEN NilErr
    ELSE IF err.kind = "nilptr" THEN Panic
    ELSE IF err.kind = "api" /\ err.Type = UnauthorizedError
         THEN IF Len(err.Err) > 0 /\ Contains(err.Err[1], UnverifiedNeedle)
              THEN NewUnverifiedError
              ELSE GenericUnauthorized
    ELSE err

\* FormatError without the test of the error's type.
FormatErrorAnyType(err) ==
    IF err = NilErr THEN NilErr
    ELSE IF err.kind = "nilptr" THEN Panic
    ELSE IF err.kind = "api"
         THEN IF \E i \in 1..Len(err.Err) : Contains(err.Err[i], UnverifiedNeedle)
              THEN NewUnverifiedError
              ELSE GenericUnauthorized
    ELSE err

FormatError(err) ==
    IF err = NilErr THEN NilErr
    ELSE IF err.kind = "nilptr" THEN Panic
    ELSE IF err.kind = "api" /\ err.Type = UnauthorizedError
         THEN IF \E i \in 1..Len(err.Err) : Contains(err.Err[i], UnverifiedNeedle)
              THEN NewUnverifiedError
              ELSE GenericUnauthorized
    ELSE err

IsNotFoundError(err) ==
    IF err = NilErr THEN FALSE
    ELSE IF err.kind = "api" THEN err.Type = NotFoundError
    ELSE FALSE

\* strings.Join(e.Err, " ")
RECURSIVE JoinMessages(_)
JoinMessages(msgs) ==
    IF msgs = <<>> THEN <<>>
    ELSE IF Len(msgs) = 1 THEN msgs[1]
    ELSE msgs[1] \o <<" ">> \o JoinMessages(Tail(msgs))

\* error.Error(): for an *Error the title-cased type, ": " and the joined
\* messages; the type's text stands for its title-cased form.
ErrorString(err) ==
    IF err.kind = "api" THEN <<err.Type, ": ">> \o JoinMessages(err.Err)
    ELSE err.msg

\* FormatError is handed nil, a non-API error, a nil *Error or any *Error with
\* up to MaxMsgs messages.
InitErrors ==
    /\ feOut = NotCalled
    /\ \/ feErr \in NonApiErrors
       \/ \E c \in StatusCodes, t \in ErrorTypes, k \in 0..MaxMsgs :
            \E ms \in [1..k -> Messages] : feErr = ApiErr(c, t, ms)
CallFormatError ==
    /\ feOut = NotCalled
    /\ feOut' = FormatError(feErr)
    /\ UNCHANGED feErr

IsUnauthorizedApi(err) == err.kind = "api" /\ err.Type = UnauthorizedError

\* Some message of err reads ... "wrong identity state: " "unverified" ...
MentionsUnverified(err) ==
    \E i \in DOMAIN err.Err :
        \E k \in 0..(Len(err.Err[i]) - 2) :
            /\ err.Err[i][k + 1] = "wrong identity state: "
            /\ err.Err[i][k + 2] = "unverified"

\* C1: for every unauthorized API error, FormatError returns the unverified-account
\* error exactly when some message contains "wrong identity state: unverified",
\* and the generic 401 unauthorized error otherwise; the two results differ.
C1_UnauthorizedMapping ==
    (feOut # NotCalled /\ IsUnauthorizedApi(feErr)) =>
        /\ MentionsUnverified(feErr) => feOut = NewUnverifiedError
        /\ ~MentionsUnverified(feErr) => feOut = GenericUnauthorized
        /\ feOut \in {NewUnverifiedError, GenericUnauthorized}
        /\ NewUnverifiedError # GenericUnauthorized
        /\ feOut.StatusCode = 401 /\ feOut.Type = UnauthorizedError

\* C1 witness: an unauthorized error whose second message, not its first, holds
\* the text, formatted to the unverified-account error.
C1_Witness ==
    /\ feOut = NewUnverifiedError
    /\ IsUnauthorizedApi(feErr)
    /\ Len(feErr.Err) = 2
    /\ ~Contains(feErr.Err[1], UnverifiedNeedle)
    /\ Contains(feErr.Err[2], UnverifiedNeedle)

\* C10: FormatError returns nil for nil and returns every non-API error and every
\* API error of a type other than unauthorized unchanged (type, status code and
\* messages), so IsNotFoundError answers the same before and after.
C10_OthersVerbatim ==
    (feOut # NotCalled /\ feErr.kind # "nilptr" /\ ~IsUnauthorizedApi(feErr)) =>
        /\ feOut = feErr
        /\ feErr = NilErr => feOut = NilErr
        /\ IsNotFoundError(feOut) = IsNotFoundError(feErr)

\* C10 witness: a not_found error carrying the unverified text comes back as it was.
C10_Witness ==
    /\ feOut # NotCalled
    /\ feErr.kind = "api"
    /\ feErr.Type = NotFoundError
    /\ feErr.StatusCode = 404
    /\ MentionsUnverified(feErr)
    /\ feOut = feErr
    /\ IsNotFoundError(feOut)

(***************************************************************************)
(* registry: the HTTP client and the /credentialtree and /machines         *)
(* clients.  A pointer is Nil or Ptr(v).  A string is a sequence of        *)
(* tokens, "" the empty one.  client.NewRequest and client.Do belong to    *)
(* the transport, which may fail: whether each succeeds is an input.       *)
(***************************************************************************)
Nil == [ptr |-> "nil"]
Ptr(v) == [ptr |-> "to", v |-> v]

EmptyString == <<>>

\* pathexp.PathExp.String: the segments joined by "/", with a leading "/"
RECURSIVE PathExpString(_)
PathExpString(pe) ==
    IF pe = <<>> THEN <<>> ELSE <<"/", Head(pe)>> \o PathExpString(Tail(pe))

\* identity.ID.String
IDString(id) == <<"id:", id>>

\* url.Values.Set
QuerySet(query, key, value) == {kv \in query : kv[1] # key} \cup {<<key, value>>}
QueryHas(query, key) == \E kv \in query : kv[1] = key

BuildError == OtherErr(<<"cannot build request">>)
PathAndPathExpError == OtherErr(<<"cannot provide path and pathexp at the same time">>)
DoErrors == {OtherErr(<<"transport">>), ApiErr(404, NotFoundError, <<<<"x">>>>)}

\* client.NewRequest(method, path, query, body): the request, or an error
NewRequest(method, path, query, body, buildOk) ==
    IF buildOk
    THEN [req |-> Ptr([method |-> method, path |-> path, query |-> query, body |-> body]),
          err |-> NilErr]
    ELSE [req |-> Nil, err |-> BuildError]

\* What a client operation did: the NewRequest calls it made, the requests it
\* handed to client.Do, and the (result, error) pair it returned.
Outcome(built, sent, result, err) ==
    [built |-> built, sent |-> sent, result |-> result, err |-> err, panicked |-> FALSE]
PanicOutcome ==
    [built |-> 0, sent |-> <<>>, result |-> Nil, err |-> NilErr, panicked |-> TRUE]

\* The tail with the request sent a second time when client.Do fails.
BuildAndDoRetrying(method, path, query, body, buildOk, answer) ==
    LET nr == NewRequest(method, path, query, body, buildOk) IN
    IF nr.err # NilErr THEN Outcome(1, <<>>, Nil, nr.err)
    ELSE IF answer \in DoErrors THEN Outcome(1, <<nr.req.v, nr.req.v>>, Nil, answer)
    ELSE Outcome(1, <<nr.req.v>>, answer, NilErr)

\* The tail shared by the four operations: build the request, return on error;
\* Do it, return on error; return the response.  `answer` is what client.Do
\* does with the request: an error of DoErrors, or Ptr(response).
BuildAndDo(method, path, query, body, buildOk, answer) ==
    LET nr == NewRequest(method, path, query, body, buildOk) IN
    IF nr.err # NilErr THEN Outcome(1, <<>>, Nil, nr.err)
    ELSE IF answer \in DoErrors THEN Outcome(1, <<nr.req.v>>, Nil, answer)
    ELSE Outcome(1, <<nr.req.v>>, answer, NilErr)

\* CredentialTreeClient.Post
Post(t, buildOk, answer) ==
    BuildAndDo("POST", <<"/credentialtree">>, {}, t, buildOk, answer)

\* CredentialTreeClient.List without the test that rejects path with pathExp.
ListWithoutExclusion(name, path, pathExp, ownerID, buildOk, answer) ==
    LET q1 == IF path # EmptyString THEN QuerySet({}, "path", path) ELSE {}
        q2 == IF pathExp # Nil THEN QuerySet(q1, "pathexp", PathExpString(pathExp.v)) ELSE q1
        q3 == IF name # EmptyString THEN QuerySet(q2, "name", name) ELSE q2
        q4 == IF ownerID # Nil THEN QuerySet(q3, "owner_id", IDString(ownerID.v)) ELSE q3
    IN  BuildAndDo("GET", <<"/credentialtree">>, q4, Nil, buildOk, answer)

\* CredentialTreeClient.List
List(name, path, pathExp, ownerID, buildOk, answer) ==
    IF path # EmptyString /\ pathExp # Nil
    THEN Outcome(0, <<>>, Nil, PathAndPathExpError)
    ELSE
    LET q1 == IF path # EmptyString THEN QuerySet({}, "path", path) ELSE {}
        q2 == IF pathExp # Nil THEN QuerySet(q1, "pathexp", PathExpString(pathExp.v)) ELSE q1
        q3 == IF name # EmptyString THEN QuerySet(q2, "name", name) ELSE q2
        q4 == IF ownerID # Nil THEN QuerySet(q3, "owner_id", IDString(ownerID.v)) ELSE q3
    IN  BuildAndDo("GET", <<"/credentialtree">>, q4, Nil, buildOk, answer)

\* MachineCreationSegment
MachineCreationSegment(machine, memberships, tokens) ==
    [Machine |-> machine, Memberships |-> memberships, Tokens |-> tokens]

\* MachinesClient.Create sending only the first membership with the machine.
CreateFirstMembershipOnly(machine, memberships, token, buildOk, answer) ==
    IF token = Nil THEN PanicOutcome
    ELSE BuildAndDo("POST", <<"/machines">>, {},
                    MachineCreationSegment(machine,
                                           IF memberships = <<>> THEN <<>>
                                           ELSE <<memberships[1]>>,
                                           <<token.v>>),
                    buildOk, answer)

\* MachinesClient.Create: *token panics on a nil token, before any request
Create(machine, memberships, token, buildOk, answer) ==
    IF token = Nil THEN PanicOutcome
    ELSE BuildAndDo("POST", <<"/machines">>, {},
                    MachineCreationSegment(machine, memberships, <<token.v>>),
                    buildOk, answer)

\* MachinesClient.Get: *machineID panics on a nil ID, before any request
Get(machineID, buildOk, answer) ==
    IF machineID = Nil THEN PanicOutcome
    ELSE BuildAndDo("GET", <<"/machines/">> \o IDString(machineID.v), {}, Nil,
                    buildOk, answer)

\* The arguments and answers the model draws from.
NameArgs == {EmptyString, <<"API_KEY">>}
PathArgs == {EmptyString, <<"/", "acme", "/", "web">>}
PathExpArgs == {Nil, Ptr(<<"acme", "*">>)}
IDArgs == {Nil, Ptr("id1")}
TreeArgs == {Ptr([Keyring |-> "kr1", Members |-> <<"m1">>, Credentials |-> <<"c1">>])}
MachineArgs == {Nil, Ptr("machine1")}
MembershipArgs == {<<>>, <<"ms1">>, <<"ms1", "ms2">>}
TokenArgs == {Nil, Ptr([Token |-> "tok1", Keypairs |-> <<"sig", "enc">>])}
Answers == DoErrors \cup {Ptr("response")}

NoCall == [op |-> "none"]
CallRecord(op, args, buildOk, answer, out) ==
    [op |-> op, args |-> args, buildOk |-> buildOk, answer |-> answer, out |-> out]

InitRegistry == wire = <<>> /\ lastCall = NoCall /\ nCalls = 0
\* One client operation, from call to return.
Perform(op, args, buildOk, answer, out) ==
    /\ nCalls < MaxCalls
    /\ nCalls' = nCalls + 1
    /\ wire' = wire \o out.sent
    /\ lastCall' = CallRecord(op, args, buildOk, answer, out)

CallPost ==
    \E t \in TreeArgs, buildOk \in BOOLEAN, answer \in Answers :
        Perform("Post", <<t>>, buildOk, answer, Post(t, buildOk, answer))

CallList ==
    \E name \in NameArgs, path \in PathArgs, pathExp \in PathExpArgs, ownerID \in IDArgs,
       buildOk \in BOOLEAN, answer \in Answers :
        Perform("List", <<name, path, pathExp, ownerID>>, buildOk, answer,
                List(name, path, pathExp, ownerID, buildOk, answer))

CallCreate ==
    \E machine \in MachineArgs, memberships \in MembershipArgs, token \in TokenArgs,
       buildOk \in BOOLEAN, answer \in Answers :
        Perform("Create", <<machine, memberships, token>>, buildOk, answer,
                Create(machine, memberships, token, buildOk, answer))

CallGet ==
    \E machineID \in IDArgs, buildOk \in BOOLEAN, answer \in Answers :
        Perform("Get", <<machineID>>, buildOk, answer, Get(machineID, buildOk, answer))

IsListRequest(q) == q.method = "GET" /\ q.path = <<"/credentialtree">>
IsCreateRequest(q) == q.method = "POST" /\ q.path = <<"/machines">>

\* C2: List called with a non-empty path and a non-nil pathExp returns an error and
\* a nil result, having built and sent no request; and no GET /credentialtree
\* request List has sent carries both the path and the pathexp filter.
C2_ListPathExclusive ==
    /\ (lastCall.op = "List" /\ lastCall.args[2] # EmptyString /\ lastCall.args[3] # Nil) =>
            /\ lastCall.out.err # NilErr
            /\ lastCall.out.result = Nil
            /\ lastCall.out.built = 0
            /\ lastCall.out.sent = <<>>
    /\ \A i \in DOMAIN wire :
            IsListRequest(wire[i]) =>
                ~(QueryHas(wire[i].query, "path") /\ QueryHas(wire[i].query, "pathexp"))

\* C2 witness: after a List that sent a pathexp-filtered request, a List with both
\* path and pathExp was rejected and the wire did not grow.
C2_Witness ==
    /\ lastCall.op = "List"
    /\ lastCall.args[2] # EmptyString
    /\ lastCall.args[3] # Nil
    /\ lastCall.out.err = PathAndPathExpError
    /\ nCalls = 2
    /\ Len(wire) = 1
    /\ QueryHas(wire[1].query, "pathexp")

\* C3: every client operation sends at most one request and does not retry: when
\* NewRequest fails it returns that error and nil with nothing sent, when Do fails
\* it returns that error and nil with the one request sent; so the wire never holds
\* more requests than operations were called.
C3_AtMostOneRequestNoRetry ==
    /\ Len(wire) <= nCalls
    /\ lastCall.op \in {"Post", "List", "Create", "Get"} =>
        /\ Len(lastCall.out.sent) <= 1
        /\ lastCall.out.built <= 1
        /\ (lastCall.out.built = 1 /\ ~lastCall.buildOk) =>
                /\ lastCall.out.sent = <<>>
                /\ lastCall.out.err = BuildError
                /\ lastCall.out.result = Nil
        /\ (lastCall.out.built = 1 /\ lastCall.buildOk /\ lastCall.answer \in DoErrors) =>
                /\ Len(lastCall.out.sent) = 1
                /\ lastCall.out.err = lastCall.answer
                /\ lastCall.out.result = Nil

\* C3 witness: two operations were called, the second was a Post whose request
\* failed in client.Do, and the wire holds exactly the two requests.
C3_Witness ==
    /\ nCalls = 2
    /\ Len(wire) = 2
    /\ lastCall.op = "Post"
    /\ lastCall.buildOk
    /\ lastCall.answer \in DoErrors
    /\ lastCall.out.err = lastCall.answer

\* C9: a Create that gets to send puts the machine, all the memberships it was
\* given and exactly one token segment, the given token, in one POST /machines
\* request; a Create that sends nothing sends no part of them; every POST
\* /machines request on the wire holds exactly one token segment.
C9_CreateSingleRequest ==
    /\ lastCall.op = "Create" =>
        IF ~lastCall.out.panicked /\ lastCall.buildOk
        THEN /\ Len(lastCall.out.sent) = 1
             /\ wire[Len(wire)] = lastCall.out.sent[1]
             /\ IsCreateRequest(lastCall.out.sent[1])
             /\ lastCall.out.sent[1].body.Machine = lastCall.args[1]
             /\ lastCall.out.sent[1].body.Memberships = lastCall.args[2]
             /\ lastCall.out.sent[1].body.Tokens = <<lastCall.args[3].v>>
        ELSE lastCall.out.sent = <<>>
    /\ \A i \in DOMAIN wire :
            IsCreateRequest(wire[i]) => Len(wire[i].body.Tokens) = 1

\* C9 witness: a Create with two memberships was answered by the registry, its one
\* request carrying both memberships and the token.
C9_Witness ==
    /\ lastCall.op = "Create"
    /\ lastCall.args[1] # Nil
    /\ Len(lastCall.args[2]) = 2
    /\ lastCall.out.err = NilErr
    /\ lastCall.out.result = Ptr("response")
    /\ Len(wire) = 1
    /\ wire[1].body.Machine = lastCall.args[1]
    /\ Len(wire[1].body.Memberships) = 2
    /\ Len(wire[1].body.Tokens) = 1

(***************************************************************************)
(* daemon: main, watch and shutdown of the daemon process.  The process    *)
(* ends when main returns, when log.Fatalf exits, when a goroutine panics  *)
(* with nothing recovering, or when a signal it does not handle kills it.  *)
(* daemon.Run and daemon.Shutdown are called here and defined elsewhere:   *)
(* Run may return nil or an error, or panic, at any time; Shutdown wipes   *)
(* the session keys and returns, or panics before or after the wipe.       *)
(***************************************************************************)
Goroutines == {"main", "watch"}
SigChanCap == 1

InitDaemon ==
    /\ proc = "running"
    /\ mainPc = "NewConfig"
    /\ watchPc = "unborn"
    /\ sigChan = 0
    /\ shutStage = [g \in Goroutines |-> "out"]
    /\ shutDone = 0
    /\ keysWiped = FALSE
    /\ runResult = "none"

\* NewDaemon has returned a daemon
DaemonCreated == mainPc \notin {"NewConfig", "NewDaemon", "fatal"}

\* signal.Notify has registered c for the signal
WatchRegistered == watchPc \notin {"unborn", "Notify"}

Exit(how) == proc' = how

\* main: NewConfig, log.Fatalf on error
MainNewConfig ==
    /\ proc = "running" /\ mainPc = "NewConfig"
    /\ \E ok \in BOOLEAN :
        IF ok THEN mainPc' = "NewDaemon" /\ UNCHANGED proc
        ELSE mainPc' = "fatal" /\ Exit("fatal")
    /\ UNCHANGED <<watchPc, sigChan, shutStage, shutDone, keysWiped, runResult>>

\* main: NewDaemon, log.Fatalf on error
MainNewDaemon ==
    /\ proc = "running" /\ mainPc = "NewDaemon"
    /\ \E ok \in BOOLEAN :
        IF ok THEN mainPc' = "go watch" /\ UNCHANGED proc
        ELSE mainPc' = "fatal" /\ Exit("fatal")
    /\ UNCHANGED <<watchPc, sigChan, shutStage, shutDone, keysWiped, runResult>>

\* main: go watch(daemon)
MainGoWatch ==
    /\ proc = "running" /\ mainPc = "go watch"
    /\ mainPc' = "defer"
    /\ watchPc' = "Notify"
    /\ UNCHANGED <<proc, sigChan, shutStage, shutDone, keysWiped, runResult>>

\* main: defer daemon.Shutdown(), then daemon.Run() is entered
MainDefer ==
    /\ proc = "running" /\ mainPc = "defer"
    /\ mainPc' = "Run"
    /\ UNCHANGED <<proc, watchPc, sigChan, shutStage, shutDone, keysWiped, runResult>>

\* main: daemon.Run() ends; main returns (or unwinds) into the deferred
\* daemon.Shutdown()
MainRunEnds ==
    /\ proc = "running" /\ mainPc = "Run"
    /\ \E res \in {"nil", "error", "panic"} : runResult' = res
    /\ mainPc' = "deferred Shutdown"
    /\ shutStage' = [shutStage EXCEPT !["main"] = "entered"]
    /\ UNCHANGED <<proc, watchPc, sigChan, shutDone, keysWiped>>

\* watch: make(chan os.Signal, 1); signal.Notify(c, os.Interrupt); signal.Notify(c, os.Kill)
WatchNotify ==
    /\ proc = "running" /\ watchPc = "Notify"
    /\ watchPc' = "receive"
    /\ UNCHANGED <<proc, mainPc, sigChan, shutStage, shutDone, keysWiped, runResult>>

\* watch: s := <-c, then shutdown(daemon) calls daemon.Shutdown()
WatchReceive ==
    /\ proc = "running" /\ watchPc = "receive"
    /\ sigChan > 0
    /\ sigChan' = sigChan - 1
    /\ watchPc' = "Shutdown"
    /\ shutStage' = [shutStage EXCEPT !["watch"] = "entered"]
    /\ UNCHANGED <<proc, mainPc, shutDone, keysWiped, runResult>>

\* shutdown: recover() outside a deferred call returns nil; shutdown and watch return
WatchRecover ==
    /\ proc = "running" /\ watchPc = "recover"
    /\ watchPc' = "returned"
    /\ UNCHANGED <<proc, mainPc, sigChan, shutStage, shutDone, keysWiped, runResult>>

\* daemon.Shutdown, called by g: the key wipe
ShutdownWipe(g) ==
    /\ proc = "running" /\ shutStage[g] = "entered"
    /\ shutStage' = [shutStage EXCEPT ![g] = "wiped"]
    /\ keysWiped' = TRUE
    /\ UNCHANGED <<proc, mainPc, watchPc, sigChan, shutDone, runResult>>

\* daemon.Shutdown, called by g, returns (nil or an error).  In main it was the
\* deferred call: main is over and the process ends, by the panic of Run if
\* there was one.  In watch, shutdown goes on to its recover().
ShutdownReturns(g) ==
    /\ proc = "running" /\ shutStage[g] = "wiped"
    /\ shutStage' = [shutStage EXCEPT ![g] = "out"]
    /\ shutDone' = shutDone + 1
    /\ IF g = "main"
       THEN /\ mainPc' = "returned"
            /\ Exit(IF runResult = "panic" THEN "panic in Run" ELSE "main returned")
            /\ UNCHANGED watchPc
       ELSE /\ watchPc' = "recover"
            /\ UNCHANGED <<proc, mainPc>>
    /\ UNCHANGED <<sigChan, keysWiped, runResult>>

\* daemon.Shutdown, called by g, panics: nothing recovers it (the recover() of
\* shutdown is not in a deferred function and is not reached), the process dies.
ShutdownPanics(g) ==
    /\ proc = "running" /\ shutStage[g] \in {"entered", "wiped"}
    /\ Exit("panic in Shutdown")
    /\ UNCHANGED <<mainPc, watchPc, sigChan, shutStage, shutDone, keysWiped, runResult>>

\* os.Interrupt arrives: queued on c if watch has registered c and c has room
\* (dropped if c is full); the default action, which ends the process, otherwise.
SignalInterrupt ==
    /\ proc = "running"
    /\ IF WatchRegistered
       THEN /\ sigChan' = IF sigChan < SigChanCap THEN sigChan + 1 ELSE sigChan
            /\ UNCHANGED proc
       ELSE /\ Exit("killed by SIGINT")
            /\ UNCHANGED sigChan
    /\ UNCHANGED <<mainPc, watchPc, shutStage, shutDone, keysWiped, runResult>>

\* os.Kill arrives: SIGKILL cannot be caught, whatever signal.Notify was asked
SignalKill ==
    /\ proc = "running"
    /\ Exit("killed by SIGKILL")
    /\ UNCHANGED <<mainPc, watchPc, sigChan, shutStage, shutDone, keysWiped, runResult>>

\* C4: once the daemon has been created, the process never ends without a call of
\* daemon.Shutdown having returned and the session keys having been wiped.
C4_ShutdownBeforeExit ==
    (proc # "running" /\ DaemonCreated) => (shutDone >= 1 /\ keysWiped)

\* The goroutines inside daemon.Shutdown.
InShutdown == {g \in Goroutines : shutStage[g] # "out"}

\* C14: daemon.Shutdown is never executed by main and by the watch goroutine at
\* the same time, and the calls of it begun (returned or still running) are at
\* most one.
C14_ShutdownAtMostOnce ==
    /\ Cardinality(InShutdown) <= 1
    /\ shutDone + Cardinality(InShutdown) <= 1

(***************************************************************************)
(* cmd: the project commands.  client.Projects.Create is the API client's: *)
(* it sends one request; the registry creates the project, or answers      *)
(* "resource exists" for a project it already holds, or the request fails. *)
(* A request naming no org is never answered by a created project.         *)
(***************************************************************************)
OrgIDs == {"org1", "org2"}
ProjectNames == {<<"web">>, <<"api">>}

ExitError(msg) == [kind |-> "exit", msg |-> msg]
ErrorExitError(msg, err) == [kind |-> "exit", msg |-> msg, cause |-> err]
ResourceExists == ApiErr(400, BadRequestError, <<<<"resource exists">>>>)
RequestFailed == OtherErr(<<"transport">>)
projectCreateFailed == "Could not create project."

\* What the registry may answer to Projects.Create(orgID, name), given the
\* projects it holds.
ProjectsCreateAnswers(held, orgID, name) ==
    {"failed"}
    \cup (IF orgID # Nil /\ <<orgID.v, name>> \in held THEN {"exists"} ELSE {})
    \cup (IF orgID # Nil /\ <<orgID.v, name>> \notin held THEN {"created"} ELSE {})

\* client.Projects.Create(c, orgID, name): (project, err) and the request issued
ProjectsCreate(orgID, name, answer) ==
    [request |-> [call |-> "Projects.Create", orgID |-> orgID, name |-> name],
     project |-> IF answer = "created" THEN Ptr(<<orgID.v, name>>) ELSE Nil,
     err |-> CASE answer = "created" -> NilErr
               [] answer = "exists" -> ResourceExists
               [] OTHER -> RequestFailed]

\* What a command function did: the requests it issued and what it returned.
CmdOutcome(requests, result, err) ==
    [requests |-> requests, result |-> result, err |-> err]

\* createProjectByName
createProjectByName(orgID, name, answer) ==
    LET created == ProjectsCreate(orgID, name, answer) IN
    IF orgID = Nil
    THEN CmdOutcome(<<created.request>>, Nil, ExitError("Org not found"))
    ELSE IF created.err # NilErr
    THEN IF Contains(ErrorString(created.err), <<"resource exists">>)
         THEN CmdOutcome(<<created.request>>, Nil, ExitError("Project already exists"))
         ELSE CmdOutcome(<<created.request>>, Nil,
                         ErrorExitError(projectCreateFailed, created.err))
    ELSE CmdOutcome(<<created.request>>, created.project, NilErr)

NoCmd == [fn |-> "none"]

\* The registry before any command: no project, one org set up with its
\* keypairs, the user's profile as registered.
InitCmd ==
    /\ projects = {}
    /\ orgs = [o \in OrgIDs |-> IF o = "org1" THEN "keyed" ELSE "absent"]
    /\ profile = [name |-> <<"Ada">>, email |-> <<"ada@example.com">>]
    /\ apiLog = <<>>
    /\ cmdLast = NoCmd

\* createProjectByName, from call to return, with the registry's part in it.
CallCreateProjectByName ==
    /\ Len(apiLog) < MaxCmds
    /\ \E orgID \in {Nil} \cup {Ptr(o) : o \in OrgIDs}, name \in ProjectNames :
        \E answer \in ProjectsCreateAnswers(projects, orgID, name) :
            LET out == createProjectByName(orgID, name, answer) IN
            /\ apiLog' = apiLog \o out.requests
            /\ projects' = IF answer = "created" THEN projects \cup {<<orgID.v, name>>}
                           ELSE projects
            /\ cmdLast' = [fn |-> "createProjectByName", orgID |-> orgID, name |-> name,
                           answer |-> answer, out |-> out]
            /\ UNCHANGED <<orgs, profile>>

\* C5: createProjectByName called with a nil orgID returns the "Org not found"
\* error having issued no Projects.Create request, and the registry's projects
\* are as before.
C5_NilOrgRejectedBeforeRequest ==
    (cmdLast.fn = "createProjectByName" /\ cmdLast.orgID = Nil) =>
        /\ cmdLast.out.err = ExitError("Org not found")
        /\ cmdLast.out.result = Nil
        /\ cmdLast.out.requests = <<>>
        /\ \A i \in DOMAIN apiLog : apiLog[i].orgID # Nil

(***************************************************************************)
(* cmd: createProjectCmd.  SelectCreateOrg, NamePrompt, handleSelectError, *)
(* client.Orgs.Create and generateKeypairsForOrg are called here and       *)
(* defined elsewhere: each is what it may hand back to the command.        *)
(***************************************************************************)
\* *api.OrgResult, as far as the command reads it: org.ID
OrgResult(id) == Ptr([ID |-> id])

\* config.LoadConfig(): err
LoadConfigAnswers == {NilErr, OtherErr(<<"config">>)}

\* SelectCreateOrg(c, client, ctx.String("org")): (org, orgName, newOrg, err).
\* It fails, or finds no org, or picks an org the registry holds, or asks for
\* a new org of some name.
SelectCreateOrgAnswers(held) ==
    {[org |-> Nil, orgName |-> "", newOrg |-> FALSE, err |-> RequestFailed],
     [org |-> Nil, orgName |-> "", newOrg |-> FALSE, err |-> NilErr]}
    \cup {[org |-> OrgResult(Ptr(o)), orgName |-> o, newOrg |-> FALSE, err |-> NilErr] :
             o \in {h \in OrgIDs : held[h] # "absent"}}
    \cup {[org |-> Nil, orgName |-> o, newOrg |-> TRUE, err |-> NilErr] : o \in OrgIDs}

\* NamePrompt(&label, name, autoAccept): (name, err)
NamePromptAnswers ==
    {[name |-> n, err |-> NilErr] : n \in ProjectNames}
    \cup {[name |-> EmptyString, err |-> OtherErr(<<"interrupt">>)]}

\* handleSelectError(err, generic)
handleSelectError(err, generic) == [kind |-> "select", msg |-> generic, cause |-> err]

\* What client.Orgs.Create(c, orgName) may return, given the orgs the registry
\* holds.  A failed call returns the error with no org (as the registry
\* clients return nil, err) or with the org it did not fill in.
OrgsCreateAnswers(held, name) ==
    {[org |-> g, err |-> e] :
        g \in {Nil, OrgResult(Nil)},
        e \in {RequestFailed} \cup (IF name \in OrgIDs /\ held[name] # "absent"
                                    THEN {ResourceExists} ELSE {})}
    \cup (IF name \in OrgIDs /\ held[name] = "absent"
          THEN {[org |-> OrgResult(Ptr(name)), err |-> NilErr]} ELSE {})

\* client.Orgs.Create(c, orgName): (org, err) and the request issued
OrgsCreate(name, answer) ==
    [request |-> [call |-> "Orgs.Create", name |-> name],
     org |-> answer.org, err |-> answer.err]

\* generateKeypairsForOrg(c, ctx, client, org.ID, false): err
generateKeypairsForOrg(orgID, answer) ==
    [request |-> [call |-> "generateKeypairsForOrg", orgID |-> orgID], err |-> answer]

\* What a command did: the calls it made of its surroundings (asked), the
\* requests it issued and the error it returned or the panic it died of.
CmdReturn(asked, requests, err) ==
    [asked |-> asked, requests |-> requests, err |-> err]

\* createProjectCmd.  env holds what each call of the surroundings hands back.
createProjectCmd(env) ==
    LET sel == env.SelectCreateOrg
        np == env.NamePrompt
        a1 == {"LoadConfig"}
        a2 == a1 \cup {"SelectCreateOrg"}
        a3 == a2 \cup {"NamePrompt"}
        a4 == a3 \cup {"OrgsCreate"}
        a5 == a4 \cup {"generateKeypairsForOrg"}
        project(asked, requests, orgID) ==
            LET p == createProjectByName(orgID, np.name, env.ProjectsCreate) IN
            CmdReturn(asked \cup {"ProjectsCreate"}, requests \o p.requests, p.err)
    IN
    IF env.LoadConfig # NilErr THEN CmdReturn(a1, <<>>, ExitError(projectCreateFailed))
    ELSE IF sel.err # NilErr
    THEN CmdReturn(a2, <<>>, ErrorExitError(projectCreateFailed, sel.err))
    ELSE IF ~sel.newOrg /\ sel.org = Nil
    THEN CmdReturn(a2, <<>>, ExitError("Org not found."))
    ELSE IF np.err # NilErr
    THEN CmdReturn(a3, <<>>, handleSelectError(np.err, projectCreateFailed))
    ELSE IF sel.newOrg
    THEN LET created == OrgsCreate(sel.orgName, env.OrgsCreate) IN
         \* orgID = org.ID comes before the test of err
         IF created.org = Nil THEN CmdReturn(a4, <<created.request>>, Panic)
         ELSE IF created.err # NilErr
         THEN CmdReturn(a4, <<created.request>>,
                        ErrorExitError("Could not create org", created.err))
         ELSE LET keys == generateKeypairsForOrg(created.org.v.ID,
                                                 env.generateKeypairsForOrg) IN
              IF keys.err # NilErr
              THEN CmdReturn(a5, <<created.request, keys.request>>, keys.err)
              ELSE project(a5, <<created.request, keys.request>>, created.org.v.ID)
    ELSE project(a3, <<>>, sel.org.v.ID)

\* The answers the command used, the others blanked.
Asked(env, asked) ==
    [f \in DOMAIN env |-> IF f \in asked THEN env[f] ELSE [kind |-> "not asked"]]

\* The requests of a kind among those a command issued.
RequestsOf(requests, call) == {i \in DOMAIN requests : requests[i].call = call}

\* createProjectCmd, from call to return, with the registry's part in it.
CallCreateProjectCmd ==
    /\ Len(apiLog) < MaxCmds
    /\ \E cfg \in LoadConfigAnswers, sel \in SelectCreateOrgAnswers(orgs),
          np \in NamePromptAnswers, keys \in {NilErr, RequestFailed},
          pc \in {"failed", "exists", "created"} :
        \E oc \in OrgsCreateAnswers(orgs, sel.orgName) :
            LET env == [LoadConfig |-> cfg, SelectCreateOrg |-> sel, NamePrompt |-> np,
                        OrgsCreate |-> oc, generateKeypairsForOrg |-> keys,
                        ProjectsCreate |-> pc]
                out == createProjectCmd(env)
                sent == RequestsOf(out.requests, "Projects.Create")
            IN
            /\ \A i \in sent :
                   pc \in ProjectsCreateAnswers(projects, out.requests[i].orgID,
                                                out.requests[i].name)
            /\ apiLog' = apiLog \o out.requests
            /\ orgs' = IF "OrgsCreate" \in out.asked /\ oc.err = NilErr
                       THEN [orgs EXCEPT ![sel.orgName] =
                                IF "generateKeypairsForOrg" \in out.asked /\ keys = NilErr
                                THEN "keyed" ELSE "created"]
                       ELSE orgs
            /\ projects' = IF sent # {} /\ pc = "created"
                           THEN projects \cup {<<out.requests[i].orgID.v, out.requests[i].name>> :
                                                  i \in sent}
                           ELSE projects
            /\ cmdLast' = [fn |-> "createProjectCmd", env |-> Asked(env, out.asked),
                           out |-> out]
            /\ UNCHANGED profile

\* C11: when createProjectCmd has to create the org and Orgs.Create fails, the
\* command returns the "Could not create org" error and neither generates
\* keypairs nor creates a project; and when it creates a project in a new org,
\* Orgs.Create and the keypair generation have both succeeded before.
C11_OrgCreateFailureSurfaces ==
    cmdLast.fn = "createProjectCmd" =>
        LET out == cmdLast.out
            env == cmdLast.env
        IN
        /\ ("OrgsCreate" \in out.asked /\ env.OrgsCreate.err # NilErr) =>
              /\ out.err = ErrorExitError("Could not create org", env.OrgsCreate.err)
              /\ RequestsOf(out.requests, "generateKeypairsForOrg") = {}
              /\ RequestsOf(out.requests, "Projects.Create") = {}
        /\ ("OrgsCreate" \in out.asked /\ RequestsOf(out.requests, "Projects.Create") # {}) =>
              /\ env.OrgsCreate.err = NilErr
              /\ env.generateKeypairsForOrg = NilErr
              /\ orgs[env.SelectCreateOrg.orgName] = "keyed"
              /\ \A i \in RequestsOf(out.requests, "Projects.Create") :
                    /\ \E j \in RequestsOf(out.requests, "Orgs.Create") : j < i
                    /\ \E j \in RequestsOf(out.requests, "generateKeypairsForOrg") : j < i

\* The part of C11 that holds: after a failed Orgs.Create the command has
\* neither generated keypairs nor created a project.
OrgCreateFailureStops ==
    (cmdLast.fn = "createProjectCmd" /\ "OrgsCreate" \in cmdLast.out.asked
       /\ cmdLast.env.OrgsCreate.err # NilErr) =>
        /\ cmdLast.out.err \in {Panic, ErrorExitError("Could not create org",
                                                      cmdLast.env.OrgsCreate.err)}
        /\ RequestsOf(cmdLast.out.requests, "generateKeypairsForOrg") = {}
        /\ RequestsOf(cmdLast.out.requests, "Projects.Create") = {}

(***************************************************************************)
(* cmd: profileEdit.  The session and the profile come from the daemon     *)
(* (client.Session.Who), the new values from the prompts; client.Users.    *)
(* Update sends the delta, and the registry sets the fields it carries.    *)
(***************************************************************************)
Names == {<<"Ada">>, <<"Bea">>}
Emails == {<<"ada@example.com">>, <<"bea@example.com">>}

\* apitypes.ProfileUpdate
ProfileUpdate(name, email, password) ==
    [Name |-> name, Email |-> email, Password |-> password]

\* client.Session.Who(c): (session, err) and the request issued
SessionWho(type, held, err) ==
    [request |-> [call |-> "Session.Who"],
     session |-> IF err = NilErr
                 THEN Ptr([Type |-> type, Name |-> held.name, Email |-> held.email])
                 ELSE Nil,
     err |-> err]

\* client.Users.Update(c, delta): err and the request issued
UsersUpdate(delta, err) ==
    [request |-> [call |-> "Users.Update", delta |-> delta], err |-> err]

\* The profile after the registry has applied a delta: an empty field of the
\* delta leaves the profile's field as it is.
Updated(held, delta) ==
    [name |-> IF delta.Name = EmptyString THEN held.name ELSE delta.Name,
     email |-> IF delta.Email = EmptyString THEN held.email ELSE delta.Email]

\* The delta with both fields set whether changed or not.
DeltaBothFields(ogName, ogEmail, name, email) == ProfileUpdate(name, email, EmptyString)

\* The delta profileEdit builds: the changed fields only
Delta(ogName, ogEmail, name, email) ==
    ProfileUpdate(IF ogName # name THEN name ELSE EmptyString,
                  IF ogEmail # email THEN email ELSE EmptyString,
                  EmptyString)

\* profileEdit.  env holds what each call of the surroundings hands back.
profileEdit(env) ==
    LET who == env.Who
        session == who.session.v
        name == env.FullNamePrompt
        email == env.EmailPrompt
        a1 == {"LoadConfig"}
        a2 == a1 \cup {"Who"}
        a3 == a2 \cup {"FullNamePrompt"}
        a4 == a3 \cup {"EmailPrompt"}
        a5 == a4 \cup {"ConfirmDialogue"}
        a6 == a5 \cup {"UsersUpdate"}
        a7 == a6 \cup {"WhoAgain"}
    IN
    IF env.LoadConfig # NilErr THEN CmdReturn(a1, <<>>, env.LoadConfig)
    ELSE IF who.err # NilErr
    THEN CmdReturn(a2, <<who.request>>,
                   ErrorExitError("Error fetching user details", who.err))
    ELSE IF session.Type = MachineSession
    THEN CmdReturn(a2, <<who.request>>, ExitError("Machines do not have profiles"))
    ELSE IF name.err # NilErr THEN CmdReturn(a3, <<who.request>>, name.err)
    ELSE IF email.err # NilErr THEN CmdReturn(a4, <<who.request>>, email.err)
    ELSE IF session.Email = email.value /\ session.Name = name.value
    THEN CmdReturn(a4, <<who.request>>, NilErr)
    ELSE IF env.ConfirmDialogue # NilErr
    THEN CmdReturn(a5, <<who.request>>, env.ConfirmDialogue)
    ELSE LET update == UsersUpdate(Delta(session.Name, session.Email,
                                         name.value, email.value),
                                   env.UsersUpdate)
         IN
         IF update.err # NilErr
         THEN CmdReturn(a6, <<who.request, update.request>>,
                        ErrorExitError("Failed to update profile.", update.err))
         ELSE IF env.WhoAgain # NilErr
         THEN CmdReturn(a7, <<who.request, update.request, who.request>>,
                        ErrorExitError("Error fetching user details", env.WhoAgain))
         ELSE CmdReturn(a7, <<who.request, update.request, who.request>>, NilErr)

\* What a prompt hands back: a value entered, or an error
PromptAnswers(values) ==
    {[value |-> v, err |-> NilErr] : v \in values}
    \cup {[value |-> EmptyString, err |-> OtherErr(<<"interrupt">>)]}

\* profileEdit, from call to return, with the registry's part in it.
CallProfileEdit ==
    /\ Len(apiLog) < MaxCmds
    /\ \E cfg \in LoadConfigAnswers, type \in {UserSession, MachineSession},
          whoErr \in {NilErr, RequestFailed},
          name \in PromptAnswers(Names), email \in PromptAnswers(Emails),
          confirm \in {NilErr, OtherErr(<<"declined">>)},
          updateErr \in {NilErr, RequestFailed}, againErr \in {NilErr, RequestFailed} :
        LET env == [LoadConfig |-> cfg, Who |-> SessionWho(type, profile, whoErr),
                    FullNamePrompt |-> name, EmailPrompt |-> email,
                    ConfirmDialogue |-> confirm, UsersUpdate |-> updateErr,
                    WhoAgain |-> againErr]
            out == profileEdit(env)
            sent == RequestsOf(out.requests, "Users.Update")
        IN
        /\ apiLog' = apiLog \o out.requests
        /\ profile' = IF sent # {} /\ updateErr = NilErr
                      THEN Updated(profile, out.requests[CHOOSE i \in sent : TRUE].delta)
                      ELSE profile
        /\ cmdLast' = [fn |-> "profileEdit", env |-> Asked(env, out.asked),
                       before |-> profile, out |-> out]
        /\ UNCHANGED <<projects, orgs>>

\* The Users.Update requests the last profileEdit issued.
UpdatesSent == RequestsOf(cmdLast.out.requests, "Users.Update")

\* C12: profileEdit issues a Users.Update only for a user session whose
\* entered name or email differs from the current one and whose confirmation
\* was given; for a machine session, unchanged values or a declined
\* confirmation it issues none and the profile stays; the delta it sends
\* carries the changed fields and leaves the unchanged ones empty.
C12_UpdateOnlyChanges ==
    cmdLast.fn = "profileEdit" =>
        LET out == cmdLast.out
            env == cmdLast.env
            og == cmdLast.before
        IN
        /\ Cardinality(UpdatesSent) <= 1
        /\ UpdatesSent # {} =>
              /\ env.Who.session.v.Type = UserSession
              /\ env.FullNamePrompt.value # og.name \/ env.EmailPrompt.value # og.email
              /\ env.ConfirmDialogue = NilErr
        /\ ("Who" \in out.asked /\ env.Who.err = NilErr
              /\ env.Who.session.v.Type = MachineSession) => UpdatesSent = {}
        /\ ("EmailPrompt" \in out.asked /\ env.EmailPrompt.err = NilErr
              /\ env.FullNamePrompt.value = og.name
              /\ env.EmailPrompt.value = og.email) => UpdatesSent = {}
        /\ ("ConfirmDialogue" \in out.asked /\ env.ConfirmDialogue # NilErr) =>
              UpdatesSent = {}
        /\ UpdatesSent = {} => profile = og
        /\ \A i \in UpdatesSent :
              LET delta == out.requests[i].delta IN
              /\ delta.Name = (IF env.FullNamePrompt.value # og.name
                               THEN env.FullNamePrompt.value ELSE EmptyString)
              /\ delta.Email = (IF env.EmailPrompt.value # og.email
                                THEN env.EmailPrompt.value ELSE EmptyString)
              /\ delta.Password = EmptyString

\* A profileEdit that changed the name alone: its update carries the new name
\* and an empty email, and the registry holds the new name and the old email.
C12_Witness ==
    /\ cmdLast.fn = "profileEdit"
    /\ cmdLast.out.err = NilErr
    /\ UpdatesSent # {}
    /\ \A i \in UpdatesSent :
          /\ cmdLast.out.requests[i].delta.Name # EmptyString
          /\ cmdLast.out.requests[i].delta.Email = EmptyString
    /\ profile.name # cmdLast.before.name
    /\ profile.email = cmdLast.before.email

(***************************************************************************)
(* cmd: listServices.  The flags come from the command line; the org, the  *)
(* projects and the services are what the registry answers.                *)
(***************************************************************************)
serviceListFailed == <<"Could not list services, please try again.">>

\* cli.NewExitError(message, -1)
NewExitError(message) == [kind |-> "exit", msg |-> message, code |-> -1]

\* The zero identity.ID, the value of projectID until it is assigned
ZeroID == 0

\* What the registry may answer to Orgs.GetByName: a failure, no org, or the
\* org of that name if it holds one.
OrgsGetByNameAnswers(held, name) ==
    {[org |-> Nil, err |-> RequestFailed], [org |-> Nil, err |-> NilErr]}
    \cup (IF held[name] # "absent"
          THEN {[org |-> OrgResult(Ptr(name)), err |-> NilErr]} ELSE {})

\* client.Orgs.GetByName(c, name): (org, err) and the request issued
OrgsGetByName(name, answer) ==
    [request |-> [call |-> "Orgs.GetByName", name |-> name],
     org |-> answer.org, err |-> answer.err]

\* What the registry may answer to Projects.List: a failure, or up to
\* MaxProjects projects (api.ProjectResult, read for its ID), the first of
\* them possibly without an ID.
ProjectsListAnswers ==
    {[projects |-> <<>>, err |-> RequestFailed]}
    \cup {[projects |-> [i \in 1..k |-> [ID |-> IF i = 1 THEN first ELSE Ptr(i)]],
           err |-> NilErr] : k \in 0..MaxProjects, first \in {Nil, Ptr(1)}}

\* client.Projects.List(c, orgID, name): (projects, err) and the request issued
ProjectsList(orgID, name, answer) ==
    [request |-> [call |-> "Projects.List", orgID |-> orgID, name |-> name],
     projects |-> answer.projects, err |-> answer.err]

\* client.Services.List(c, orgID, projectID, nil): err and the request issued
ServicesList(orgID, projectID, err) ==
    [request |-> [call |-> "Services.List", orgID |-> orgID, projectID |-> projectID],
     err |-> err]

\* The flag test with the --project requirement left out.
FlagErrorAllOnly(all, project) ==
    IF all /\ Len(project) > 0
    THEN NewExitError(<<"Cannot use --project flag with --all\n\n", "usageString(ctx)">>)
    ELSE NilErr

\* The flag test that opens listServices: the error it returns, or nil
FlagError(all, project) ==
    IF ~all
    THEN IF Len(project) < 1
         THEN NewExitError(<<"Missing flags: --project\n\n", "usageString(ctx)">>)
         ELSE NilErr
    ELSE IF Len(project) > 0
         THEN NewExitError(<<"Cannot use --project flag with --all\n\n", "usageString(ctx)">>)
         ELSE NilErr

\* listServices.  all, project and orgName are the flags; env holds what each
\* call of the surroundings hands back.
listServices(all, project, orgName, env) ==
    LET found == OrgsGetByName(orgName, env.OrgsGetByName)
        orgID == found.org.v.ID
        listed == ProjectsList(orgID, IF all THEN Nil ELSE Ptr(project), env.ProjectsList)
        a1 == {"LoadConfig"}
        a2 == a1 \cup {"OrgsGetByName"}
        a3 == a2 \cup {"ProjectsList"}
        a4 == a3 \cup {"ServicesList"}
        services(projectID) ==
            LET s == ServicesList(orgID, Ptr(projectID), env.ServicesList) IN
            CmdReturn(a4, <<found.request, listed.request, s.request>>,
                      IF s.err # NilErr THEN NewExitError(serviceListFailed) ELSE NilErr)
    IN
    IF FlagError(all, project) # NilErr THEN CmdReturn({}, <<>>, FlagError(all, project))
    ELSE IF env.LoadConfig # NilErr THEN CmdReturn(a1, <<>>, env.LoadConfig)
    ELSE IF found.err # NilErr
    THEN CmdReturn(a2, <<found.request>>, NewExitError(serviceListFailed))
    ELSE IF found.org = Nil
    THEN CmdReturn(a2, <<found.request>>, NewExitError(<<"Org not found.">>))
    ELSE IF listed.err # NilErr
    THEN CmdReturn(a3, <<found.request, listed.request>>, NewExitError(serviceListFailed))
    ELSE IF all THEN services(ZeroID)
    ELSE IF Len(listed.projects) = 1
    THEN IF listed.projects[1].ID = Nil
         THEN CmdReturn(a3, <<found.request, listed.request>>, Panic)
         ELSE services(listed.projects[1].ID.v)
    ELSE CmdReturn(a3, <<found.request, listed.request>>,
                   NewExitError(<<"Project not found.">>))

\* listServices, from call to return.  The command changes nothing in the
\* registry.
CallListServices ==
    /\ Len(apiLog) < MaxCmds
    /\ \E all \in BOOLEAN, project \in {EmptyString} \cup ProjectNames, orgName \in OrgIDs,
          cfg \in LoadConfigAnswers, pl \in ProjectsListAnswers,
          sl \in {NilErr, RequestFailed} :
      \E org \in OrgsGetByNameAnswers(orgs, orgName) :
        LET env == [LoadConfig |-> cfg, OrgsGetByName |-> org, ProjectsList |-> pl,
                    ServicesList |-> sl]
            out == listServices(all, project, orgName, env)
        IN
        /\ apiLog' = apiLog \o out.requests
        /\ cmdLast' = [fn |-> "listServices", all |-> all, project |-> project,
                       orgName |-> orgName, env |-> Asked(env, out.asked),
                       before |-> Len(apiLog), out |-> out]
        /\ UNCHANGED <<projects, orgs, profile>>

\* C13: listServices without --all and without a --project, or with --all and
\* a --project, returns an exit error having loaded no configuration and
\* issued no request; without --all it issues a Services.List request only
\* when Projects.List answered exactly one project, and otherwise returns
\* "Project not found." with no Services.List request.
C13_FlagsRejectedBeforeRequests ==
    cmdLast.fn = "listServices" =>
        LET out == cmdLast.out
            env == cmdLast.env
            invalid == \/ ~cmdLast.all /\ cmdLast.project = EmptyString
                       \/ cmdLast.all /\ cmdLast.project # EmptyString
        IN
        /\ invalid =>
              /\ out.err.kind = "exit"
              /\ out.asked = {}
              /\ out.requests = <<>>
              /\ Len(apiLog) = cmdLast.before
        /\ (~cmdLast.all /\ RequestsOf(out.requests, "Services.List") # {}) =>
              /\ "ProjectsList" \in out.asked
              /\ Len(env.ProjectsList.projects) = 1
        /\ (~cmdLast.all /\ "ProjectsList" \in out.asked /\ env.ProjectsList.err = NilErr
              /\ Len(env.ProjectsList.projects) # 1) =>
              /\ out.err = NewExitError(<<"Project not found.">>)
              /\ RequestsOf(out.requests, "Services.List") = {}
        /\ \A i \in RequestsOf(out.requests, "Services.List") :
              /\ \E j \in RequestsOf(out.requests, "Orgs.GetByName") : j < i
              /\ \E j \in RequestsOf(out.requests, "Projects.List") : j < i

\* A listServices without --all and without --project, run after an earlier
\* command had issued requests: it is rejected and the requests issued are
\* those of before.
C13_Witness ==
    /\ cmdLast.fn = "listServices"
    /\ ~cmdLast.all /\ cmdLast.project = EmptyString
    /\ cmdLast.out.err = NewExitError(<<"Missing flags: --project\n\n", "usageString(ctx)">>)
    /\ cmdLast.before > 0
    /\ Len(apiLog) = cmdLast.before

\* A listServices without --all that Projects.List answered with two projects.
TwoProjectsAnswered ==
    /\ cmdLast.fn = "listServices"
    /\ "ProjectsList" \in cmdLast.out.asked
    /\ ~cmdLast.all
    /\ Len(cmdLast.env.ProjectsList.projects) = 2

(***************************************************************************)
(* session: the session engine and its lock.  The daemon serves NumReqs    *)
(* concurrent requests against one session; a request is a Login, a Logout *)
(* or a crypto operation (encrypt, decrypt, sign).  Crypto operations hold *)
(* the session lock for reading, Login and Logout for writing.             *)
(***************************************************************************)
Reqs == 1..NumReqs
NoKey == <<>>
Secrets == {"secret", "tampered"}

\* The key-derivation function, from the passphrase or the token secret
DeriveMasterKey(secret) == <<"kdf", secret>>

\* The identity's keypairs as the registry may hold them: each private key is
\* sealed under the master key of the true secret; a keypair's claim chain
\* verifies or does not.
StoredKeypairs ==
    {[name |-> "signing", sealedUnder |-> DeriveMasterKey("secret"), trusted |-> TRUE],
     [name |-> "encryption", sealedUnder |-> DeriveMasterKey("secret"), trusted |-> TRUE],
     [name |-> "unclaimed", sealedUnder |-> DeriveMasterKey("secret"), trusted |-> FALSE]}

\* The keypairs of `fetched` that the key decrypts and whose trust chain verifies
UsableKeypairs(fetched, key) ==
    {kp \in fetched : kp.sealedUnder = key /\ kp.trusted}

IdleReq == [op |-> "none", pc |-> "idle", result |-> "none"]

InitSession ==
    /\ sessState = "LoggedOut"
    /\ sessType = NotLoggedIn
    /\ masterKey = NoKey
    /\ keypairs = {}
    /\ lockW = 0
    /\ lockR = {}
    /\ req = [r \in Reqs |-> IdleReq]

InFlight(r) == req[r].pc \notin {"idle", "done"}

CanWrite == lockW = 0 /\ lockR = {}
CanRead == lockW = 0

\* A request arrives: a Login with credentials, a Logout or a crypto operation.
Arrive(r) ==
    /\ ~InFlight(r)
    /\ \/ \E type \in {UserSession, MachineSession}, secret \in Secrets :
            req' = [req EXCEPT ![r] = [op |-> "Login", pc |-> "waiting", result |-> "none",
                                       type |-> type, secret |-> secret]]
       \/ \E op \in {"Logout", "Crypto"} :
            req' = [req EXCEPT ![r] = [op |-> op, pc |-> "waiting", result |-> "none"]]
    /\ UNCHANGED <<sessState, sessType, masterKey, keypairs, lockW, lockR>>

\* Login caching the derived master key as soon as it takes the lock.
LoginBeginCachingKey(r) ==
    /\ req[r].op = "Login" /\ req[r].pc = "waiting"
    /\ CanWrite
    /\ IF sessState = "LoggedOut"
       THEN /\ lockW' = r
            /\ sessState' = "LoggingIn"
            /\ masterKey' = DeriveMasterKey(req[r].secret)
            /\ req' = [req EXCEPT ![r].pc = "deriving"]
       ELSE /\ req' = [req EXCEPT ![r].pc = "done", ![r].result = "already logged in"]
            /\ UNCHANGED <<lockW, sessState, masterKey>>
    /\ UNCHANGED <<sessType, keypairs, lockR>>

\* Login takes the write lock.  A session that is not LoggedOut refuses it.
LoginBegin(r) ==
    /\ req[r].op = "Login" /\ req[r].pc = "waiting"
    /\ CanWrite
    /\ IF sessState = "LoggedOut"
       THEN /\ lockW' = r
            /\ sessState' = "LoggingIn"
            /\ req' = [req EXCEPT ![r].pc = "deriving"]
       ELSE /\ req' = [req EXCEPT ![r].pc = "done", ![r].result = "already logged in"]
            /\ UNCHANGED <<lockW, sessState>>
    /\ UNCHANGED <<sessType, masterKey, keypairs, lockR>>

\* Login derives the key, fetches the keypairs, decrypts and verifies them: it
\* ends LoggedIn with the key material cached if some keypair is usable, and
\* otherwise (also when the fetch fails: fetched = {}) LoggedOut with nothing
\* cached and an authentication error.  The lock is released.
LoginFinish(r) ==
    /\ req[r].op = "Login" /\ req[r].pc = "deriving"
    /\ lockW = r
    /\ \E fetched \in SUBSET StoredKeypairs :
        LET key == DeriveMasterKey(req[r].secret)
            usable == UsableKeypairs(fetched, key)
        IN  IF usable # {}
            THEN /\ sessState' = "LoggedIn"
                 /\ sessType' = req[r].type
                 /\ masterKey' = key
                 /\ keypairs' = usable
                 /\ req' = [req EXCEPT ![r].pc = "done", ![r].result = "ok"]
            ELSE /\ sessState' = "LoggedOut"
                 /\ sessType' = NotLoggedIn
                 /\ masterKey' = NoKey
                 /\ keypairs' = {}
                 /\ req' = [req EXCEPT ![r].pc = "done",
                                       ![r].result = "authentication error"]
    /\ lockW' = 0
    /\ UNCHANGED lockR

\* A crypto operation taking the read lock although a writer holds the lock.
CryptoBeginIgnoringWriter(r) ==
    /\ req[r].op = "Crypto" /\ req[r].pc = "waiting"
    /\ IF sessState \in {"LoggedIn", "LoggingIn"}
       THEN /\ lockR' = lockR \cup {r}
            /\ req' = [req EXCEPT ![r].pc = "using"]
       ELSE /\ req' = [req EXCEPT ![r].pc = "done", ![r].result = "not authenticated"]
            /\ UNCHANGED lockR
    /\ UNCHANGED <<sessState, sessType, masterKey, keypairs, lockW>>

\* A crypto operation takes the read lock; with no session it fails at once.
CryptoBegin(r) ==
    /\ req[r].op = "Crypto" /\ req[r].pc = "waiting"
    /\ CanRead
    /\ IF sessState = "LoggedIn"
       THEN /\ lockR' = lockR \cup {r}
            /\ req' = [req EXCEPT ![r].pc = "using"]
       ELSE /\ req' = [req EXCEPT ![r].pc = "done", ![r].result = "not authenticated"]
            /\ UNCHANGED lockR
    /\ UNCHANGED <<sessState, sessType, masterKey, keypairs, lockW>>

\* The crypto operation uses the cached keys and releases the read lock.
CryptoFinish(r) ==
    /\ req[r].op = "Crypto" /\ req[r].pc = "using"
    /\ lockR' = lockR \ {r}
    /\ req' = [req EXCEPT ![r].pc = "done",
                          ![r].result = IF masterKey # NoKey /\ keypairs # {}
                                        THEN "ok" ELSE "used missing key"]
    /\ UNCHANGED <<sessState, sessType, masterKey, keypairs, lockW>>

\* Logout takes the write lock and wipes the master key.
LogoutBegin(r) ==
    /\ req[r].op = "Logout" /\ req[r].pc = "waiting"
    /\ CanWrite
    /\ lockW' = r
    /\ masterKey' = NoKey
    /\ req' = [req EXCEPT ![r].pc = "wiping"]
    /\ UNCHANGED <<sessState, sessType, keypairs, lockR>>

\* Logout wipes the decrypted keypairs, leaves the session LoggedOut and
\* releases the lock.
LogoutFinish(r) ==
    /\ req[r].op = "Logout" /\ req[r].pc = "wiping"
    /\ lockW = r
    /\ keypairs' = {}
    /\ sessState' = "LoggedOut"
    /\ sessType' = NotLoggedIn
    /\ lockW' = 0
    /\ req' = [req EXCEPT ![r].pc = "done", ![r].result = "ok"]
    /\ UNCHANGED <<masterKey, lockR>>

\* A request that is in flight is cancelled: it gives up its hold of the lock;
\* a Login under way is abandoned with nothing cached, a Logout under way
\* completes its wipe.
Cancel(r) ==
    /\ InFlight(r)
    /\ req' = [req EXCEPT ![r].pc = "done", ![r].result = "cancelled"]
    /\ lockR' = lockR \ {r}
    /\ IF lockW = r
       THEN /\ lockW' = 0
            /\ sessState' = "LoggedOut"
            /\ sessType' = NotLoggedIn
            /\ masterKey' = NoKey
            /\ keypairs' = {}
       ELSE UNCHANGED <<lockW, sessState, sessType, masterKey, keypairs>>

KeyMaterialCached == masterKey # NoKey \/ keypairs # {}

C6_StateInvariant ==
    /\ sessState \in {"LoggedOut", "LoggingIn", "LoggedIn"}
    /\ KeyMaterialCached => sessState = "LoggedIn"
    /\ sessState = "LoggedOut" => sessType = NotLoggedIn

C6_Step ==
    /\ sessState' # sessState =>
            <<sessState, sessState'>> \in
                {<<"LoggedOut", "LoggingIn">>, <<"LoggingIn", "LoggedIn">>,
                 <<"LoggingIn", "LoggedOut">>, <<"LoggedIn", "LoggedOut">>}
    /\ \A r \in Reqs :
        /\ (req[r].op = "Login" /\ req[r].pc = "deriving" /\ req'[r].pc = "done") =>
                /\ req'[r].result # "ok" =>
                        sessState' = "LoggedOut" /\ masterKey' = NoKey /\ keypairs' = {}
                /\ req'[r].result = "ok" =>
                        sessState' = "LoggedIn" /\ masterKey' # NoKey /\ keypairs' # {}
                /\ (req[r].secret = "tampered" /\ req'[r].result # "cancelled") =>
                        req'[r].result = "authentication error"
        /\ (req[r].op = "Crypto" /\ req[r].pc = "waiting" /\ req'[r].pc # "waiting"
            /\ sessState = "LoggedOut" /\ req'[r].result # "cancelled") =>
                req'[r].pc = "done" /\ req'[r].result = "not authenticated"

\* C6: the session moves only LoggedOut -> LoggingIn -> LoggedIn -> LoggedOut (or
\* LoggingIn -> LoggedOut when the login fails); key material is cached only
\* while it is LoggedIn; a Login that fails, as every Login with a tampered
\* secret does, leaves it LoggedOut with nothing cached; and a crypto operation
\* attempted while it is LoggedOut fails with "not authenticated".
C6_SessionStateMachine == []C6_StateInvariant /\ [][C6_Step]_vars

\* C6 witness: a machine login with a tampered secret has failed with an
\* authentication error, the session is LoggedOut with nothing cached, and a
\* crypto operation has been refused as not authenticated.
C6_Witness ==
    \E r1, r2 \in Reqs :
        /\ req[r1].op = "Login" /\ req[r1].type = MachineSession
        /\ req[r1].secret = "tampered"
        /\ req[r1].pc = "done" /\ req[r1].result = "authentication error"
        /\ req[r2].op = "Crypto" /\ req[r2].result = "not authenticated"
        /\ sessState = "LoggedOut" /\ ~KeyMaterialCached

Writing(r) == req[r].op \in {"Login", "Logout"} /\ req[r].pc \in {"deriving", "wiping"}
Using(r) == req[r].op = "Crypto" /\ req[r].pc = "using"

\* C7: a Login or Logout at work holds the lock alone: no crypto operation is in
\* flight with it and no second writer; crypto operations may overlap; the lock
\* is held only by requests in flight (so never by a cancelled one), and key
\* material is partly wiped only while a Logout at work holds the lock.
C7_ExclusiveWriters ==
    /\ lockW # 0 => lockR = {}
    /\ \A r \in Reqs : Writing(r) => lockW = r /\ \A r2 \in Reqs : ~Using(r2)
    /\ \A r \in Reqs : Using(r) <=> r \in lockR
    /\ lockW # 0 => Writing(lockW)
    /\ \A r \in Reqs : req[r].result = "cancelled" => (r \notin lockR /\ lockW # r)
    /\ (masterKey = NoKey) # (keypairs = {}) =>
            \E r \in Reqs : req[r].op = "Logout" /\ req[r].pc = "wiping" /\ lockW = r
    /\ \A r \in Reqs : req[r].result # "used missing key"

\* C7 witness: two crypto operations hold the session at the same time.
C7_Witness ==
    /\ Cardinality(lockR) >= 2
    /\ \A r \in lockR : Using(r)
    /\ sessState = "LoggedIn"

\* A Logout was cancelled between its two wipes and left nothing behind.
CancelledLogoutReached ==
    \E r \in Reqs :
        /\ req[r].op = "Logout" /\ req[r].result = "cancelled"
        /\ sessState = "LoggedOut" /\ ~KeyMaterialCached /\ lockW = 0

(***************************************************************************)
(* resolution: GetCredential's choice among the CredentialTrees that List  *)
(* returned.  A PathExp is six segments; a segment is the set of values it *)
(* admits, {"*"} being the wildcard and a set of several values an         *)
(* alternation.  A tree is its keyring's PathExp and the credential value. *)
(***************************************************************************)
NumSegments == 6
Wildcard == {"*"}

\* Match(pathExp, concretePath): segment-wise
Match(pe, path) ==
    \A i \in 1..NumSegments : pe[i] = Wildcard \/ path[i] \in pe[i]

\* Specificity(pathExp): fewer wildcards is more specific; on equal counts the
\* earlier concrete segment wins.  The greater key is the more specific.
Specificity(pe) ==
    LET concrete == {i \in 1..NumSegments : pe[i] # Wildcard}
        RECURSIVE Weight(_)
        Weight(S) == IF S = {} THEN 0
                     ELSE LET i == CHOOSE x \in S : TRUE
                          IN  2 ^ (NumSegments - i) + Weight(S \ {i})
    IN  Cardinality(concrete) * 2 ^ NumSegments + Weight(concrete)

QueryPath == <<"acme", "web", "prod", "svc", "user1", "1">>

PathExps ==
    {<<{"acme"}, project, env, Wildcard, Wildcard, instance>> :
        project \in {Wildcard, {"web"}, {"api"}, {"web", "api"}},
        env \in {Wildcard, {"prod"}},
        instance \in {Wildcard, {"1"}}}

Trees == {[PathExp |-> pe, value |-> v] : pe \in PathExps, v \in {"v1", "v2"}}

NotResolved == [kind |-> "none"]
Found(v) == [kind |-> "value", value |-> v]
NotFoundResult == [kind |-> "error", err |-> "not found"]
AmbiguousScopeError == [kind |-> "error", err |-> "ambiguous scope"]

\* One pass over the trees, keeping the most specific match so far and whether
\* another match ties with it.
RECURSIVE Scan(_, _, _, _)
Scan(trees, path, best, tied) ==
    IF trees = <<>> THEN [best |-> best, tied |-> tied]
    ELSE LET t == Head(trees) IN
         IF ~Match(t.PathExp, path) THEN Scan(Tail(trees), path, best, tied)
         ELSE IF best = <<>> \/ Specificity(t.PathExp) > Specificity(best[1].PathExp)
              THEN Scan(Tail(trees), path, <<t>>, FALSE)
         ELSE IF Specificity(t.PathExp) = Specificity(best[1].PathExp)
              THEN Scan(Tail(trees), path, best, TRUE)
         ELSE Scan(Tail(trees), path, best, tied)

\* Resolution that keeps the first of the most specific matches.
GetCredentialFirstWins(trees, path) ==
    LET s == Scan(trees, path, <<>>, FALSE) IN
    IF s.best = <<>> THEN NotFoundResult
    ELSE Found(s.best[1].value)

\* GetCredential, as far as the choice of the tree goes
GetCredential(trees, path) ==
    LET s == Scan(trees, path, <<>>, FALSE) IN
    IF s.best = <<>> THEN NotFoundResult
    ELSE IF s.tied THEN AmbiguousScopeError
    ELSE Found(s.best[1].value)

InitResolution ==
    /\ rsResult = NotResolved
    /\ \E k \in 0..MaxTrees : rsTrees \in [1..k -> Trees]

CallGetCredential ==
    /\ rsResult = NotResolved
    /\ rsResult' = GetCredential(rsTrees, QueryPath)
    /\ UNCHANGED rsTrees

Reverse(seq) == [i \in 1..Len(seq) |-> seq[Len(seq) + 1 - i]]

\* The trees that match the query path and are at least as specific as every
\* other that matches: more wildcards never, and among equal counts of
\* wildcards no other has its concrete segments earlier.
NumWildcards(pe) == Cardinality({i \in 1..NumSegments : pe[i] = Wildcard})
MoreSpecific(a, b) ==
    \/ NumWildcards(a) < NumWildcards(b)
    \/ /\ NumWildcards(a) = NumWildcards(b)
       /\ \E i \in 1..NumSegments :
            /\ a[i] # Wildcard /\ b[i] = Wildcard
            /\ \A j \in 1..(i - 1) : (a[j] = Wildcard) = (b[j] = Wildcard)
Matching == {i \in DOMAIN rsTrees : Match(rsTrees[i].PathExp, QueryPath)}
Winners ==
    {i \in Matching :
        \A j \in Matching : ~MoreSpecific(rsTrees[j].PathExp, rsTrees[i].PathExp)}

\* C8: GetCredential returns the value of the one most specific matching tree;
\* when two or more matching trees tie at the highest specificity it returns the
\* ambiguous-scope error; when none matches, not found; and the answer is the
\* same for the list in the opposite order.
C8_MostSpecificOrAmbiguous ==
    rsResult # NotResolved =>
        /\ Cardinality(Winners) >= 2 => rsResult = AmbiguousScopeError
        /\ Cardinality(Winners) = 1 =>
                \E i \in Winners : rsResult = Found(rsTrees[i].value)
        /\ Matching = {} <=> rsResult = NotFoundResult
        /\ Matching # {} => Winners # {}
        /\ rsResult = GetCredential(Reverse(rsTrees), QueryPath)

\* C8 witness: two different PathExps with different values match the path and
\* tie, the first an alternation, and the answer is the ambiguous-scope error.
C8_Witness ==
    /\ rsResult = AmbiguousScopeError
    /\ Len(rsTrees) = 2
    /\ rsTrees[1].PathExp # rsTrees[2].PathExp
    /\ rsTrees[1].value # rsTrees[2].value
    /\ Winners = {1, 2}

\* Section 8's scenario: acme/*/*/*/*/* holds v1, acme/web/prod/*/*/* holds v2,
\* and the path acme/web/prod/svc/user1/1 resolves to v2.
ScenarioReached ==
    /\ rsTrees = <<[PathExp |-> <<{"acme"}, Wildcard, Wildcard, Wildcard, Wildcard, Wildcard>>,
                    value |-> "v1"],
                   [PathExp |-> <<{"acme"}, {"web"}, {"prod"}, Wildcard, Wildcard, Wildcard>>,
                    value |-> "v2"]>>
    /\ rsResult = Found("v2")

(***************************************************************************)
(* The specifications.  Each runs one state machine: InitOf starts it with  *)
(* the others idle, and Frame leaves the variables of the others unchanged. *)
(***************************************************************************)
InitOf(c) ==
    /\ IF c = "errors" THEN InitErrors ELSE feErr = NilErr /\ feOut = NotCalled
    /\ InitRegistry
    /\ IF c = "daemon" THEN InitDaemon
       ELSE /\ proc = "off" /\ mainPc = "off" /\ watchPc = "off" /\ sigChan = 0
            /\ shutStage = [g \in Goroutines |-> "out"] /\ shutDone = 0
            /\ keysWiped = FALSE /\ runResult = "none"
    /\ InitCmd
    /\ IF c = "session" THEN InitSession
       ELSE /\ sessState = "LoggedOut" /\ sessType = NotLoggedIn /\ masterKey = NoKey
            /\ keypairs = {} /\ lockW = 0 /\ lockR = {} /\ req = <<>>
    /\ IF c = "resolution" THEN InitResolution
       ELSE rsTrees = <<>> /\ rsResult = NotResolved

Frame(c) ==
    /\ IF c = "errors" THEN TRUE ELSE UNCHANGED errVars
    /\ IF c = "registry" THEN TRUE ELSE UNCHANGED regVars
    /\ IF c = "daemon" THEN TRUE ELSE UNCHANGED dmnVars
    /\ IF c = "cmd" THEN TRUE ELSE UNCHANGED cmdVars
    /\ IF c = "session" THEN TRUE ELSE UNCHANGED sessVars
    /\ IF c = "resolution" THEN TRUE ELSE UNCHANGED resVars

NextErrors == CallFormatError /\ Frame("errors")

SpecErrors == InitOf("errors") /\ [][NextErrors]_vars

NextRegistry ==
    \/ CallPost /\ Frame("registry")
    \/ CallList /\ Frame("registry")
    \/ CallCreate /\ Frame("registry")
    \/ CallGet /\ Frame("registry")

SpecRegistry == InitOf("registry") /\ [][NextRegistry]_vars

NextDaemon ==
    \/ MainNewConfig /\ Frame("daemon")
    \/ MainNewDaemon /\ Frame("daemon")
    \/ MainGoWatch /\ Frame("daemon")
    \/ MainDefer /\ Frame("daemon")
    \/ MainRunEnds /\ Frame("daemon")
    \/ WatchNotify /\ Frame("daemon")
    \/ WatchReceive /\ Frame("daemon")
    \/ WatchRecover /\ Frame("daemon")
    \/ (\E g \in Goroutines : ShutdownWipe(g)) /\ Frame("daemon")
    \/ (\E g \in Goroutines : ShutdownReturns(g)) /\ Frame("daemon")
    \/ (\E g \in Goroutines : ShutdownPanics(g)) /\ Frame("daemon")
    \/ SignalInterrupt /\ Frame("daemon")
    \/ SignalKill /\ Frame("daemon")

SpecDaemon == InitOf("daemon") /\ [][NextDaemon]_vars

NextCmd == CallCreateProjectByName /\ Frame("cmd")

SpecCmd == InitOf("cmd") /\ [][NextCmd]_vars

NextProjectCmd == CallCreateProjectCmd /\ Frame("cmd")

SpecProjectCmd == InitOf("cmd") /\ [][NextProjectCmd]_vars

NextProfile == CallProfileEdit /\ Frame("cmd")

SpecProfile == InitOf("cmd") /\ [][NextProfile]_vars

NextServices == CallListServices /\ Frame("cmd")

SpecServices == InitOf("cmd") /\ [][NextServices]_vars

NextSession ==
    \/ (\E r \in Reqs : Arrive(r)) /\ Frame("session")
    \/ (\E r \in Reqs : LoginBegin(r)) /\ Frame("session")
    \/ (\E r \in Reqs : LoginFinish(r)) /\ Frame("session")
    \/ (\E r \in Reqs : CryptoBegin(r)) /\ Frame("session")
    \/ (\E r \in Reqs : CryptoFinish(r)) /\ Frame("session")
    \/ (\E r \in Reqs : LogoutBegin(r)) /\ Frame("session")
    \/ (\E r \in Reqs : LogoutFinish(r)) /\ Frame("session")
    \/ (\E r \in Reqs : Cancel(r)) /\ Frame("session")

SpecSession == InitOf("session") /\ [][NextSession]_vars

NextResolution == CallGetCredential /\ Frame("resolution")

SpecResolution == InitOf("resolution") /\ [][NextResolution]_vars

====
